---------------------------- MODULE Spec2Model ----------------------------
(***************************************************************************)
(* Conjunction search engine of sattosat (src/python/conjunctions.py and   *)
(* its sibling scripts).                                                   *)
(*                                                                         *)
(* Instants are integers: one unit is one microsecond, the resolution of   *)
(* Python's datetime/timedelta, so timedelta division is the rounded       *)
(* (half-to-even) integer quotient.  Separations are natural numbers.      *)
(* The SGP4 propagator is a black box: the outcome of propagating both     *)
(* objects to an instant (a separation, or an error of either object) is   *)
(* chosen the first time the instant is evaluated and is the same at every *)
(* later evaluation of that instant (`known').                             *)
(***************************************************************************)
EXTENDS Integers, Sequences, FiniteSets

\* ---------------------------------------------------------------- bounds
MaxEnd == 8        \* latest instant of a search window (start_time is 0)
MaxStep == 4       \* largest sampling step
MaxVisits == 5     \* most instants a search window holds
MaxDist == 2       \* separations are drawn from 0..MaxDist
MaxFail == 2       \* at most this many instants at which propagation fails
MaxPrecision == 2  \* largest precision of a direct refine_minimum call
MaxIter == 6       \* iterations of the ternary search that are followed
MaxTles == 3       \* longest snapshot list given to pick_closest_tle
MaxEvents == 4     \* longest list given to group_into_passes
MaxMinima == 6     \* longest list given to find_envelope_minima
MaxWindow == 5     \* largest window_size given to find_envelope_minima
MaxDepth == 1      \* distances of those minima are drawn from 0..MaxDepth
MaxAltitude == 50000000  \* greatest altitude given to eci_to_geodetic: 500 km
\* REFINE_PRECISION_MS (100 ms in the source) scaled down with the window:
\* the precision find_conjunctions passes to refine_minimum, in microseconds.
REFINE_PRECISION == 1

\* -------------------------------------------------------------- constants
\* Python's None for prev_distance / prev_time.
NoneVal == -1

\* if gap > 1800: the pass-separation threshold, in seconds.
PASS_GAP_SECONDS == 1800

\* total_seconds() > 3600: the de-duplication interval, in seconds.
DEDUP_SECONDS == 3600

\* find_envelope_minima(minima_times, minima_distances, window_size=10)
ANALYZE_WINDOW == 10

\* Lengths of eci_to_geodetic are whole centimetres.
\* EARTH_RADIUS_KM = 6378.137
EARTH_RADIUS_CM == 637813700

\* n = EARTH_RADIUS_KM / math.sqrt(1 - e2 * sin_lat**2) where sin_lat is 1 or
\* -1: 6399.593626 km.
N_POLE_CM == 639959363

\* e2 * n there, with e2 = 2 * EARTH_FLATTENING - EARTH_FLATTENING**2:
\* 42.841312 km.
E2_N_POLE_CM == 4284131

\* for _ in range(5)
LATITUDE_ITERATIONS == 5

Instants == 0..MaxEnd
DistVals == 0..MaxDist

VARIABLES
    end_time,       \* find_conjunctions: end of the window (start_time = 0)
    step,           \* timedelta(seconds=step_seconds)
    threshold_km,   \* threshold_km: the largest separation, so that refined
                    \* distances fall on both sides of it
    current,        \* loop instant of the scan
    prev_distance,  \* distance of the last successful sample, or NoneVal
    prev_time,      \* instant of the last successful sample, or NoneVal
    decreasing,     \* the detector's flag
    conjunctions,   \* events appended so far; sorted by distance on return
    pc,             \* "scan", "refine", "done"
    caller,         \* who called refine_minimum: "find_conjunctions", "direct"
    start,          \* refine_minimum: bracket start
    end,            \* refine_minimum: bracket end
    precision,      \* refine_minimum: timedelta(milliseconds=precision_ms)
    result,         \* refine_minimum: <<>> (None or not returned) or <<event>>
    returned,       \* refine_minimum has returned (direct call)
    known,          \* propagation outcomes by instant, once evaluated
    tles,           \* pick_closest_tle: the snapshot list
    target_time,    \* pick_closest_tle: the query instant
    picked,         \* pick_closest_tle: <<>> or <<the record returned>>
    visited,        \* history: instants the scan loop has run its body for
    samples,        \* history: the successful samples, in order
    declared,       \* history: minima declared by the detector
    evals,          \* history: instants evaluated by the running refinement
    brackets,       \* history: brackets held by the running refinement
    refinements,    \* history: what refine_minimum returned, per declared minimum
    prior,          \* history: the event of the call before a repeated direct call
    empty_tles,     \* tles_a or tles_b is the empty list
    events,         \* group_into_passes: the time-ordered list it is given
    passes,         \* group_into_passes: <<>> or <<the list of passes returned>>
    minima,         \* find_envelope_minima: minima_times, minima_distances
    window_size,    \* find_envelope_minima: window_size
    envelope,       \* find_envelope_minima: <<>> or <<what it returned>>
    analysis,       \* analyze_envelope: <<>> or <<the EnvelopeResult>>
    pos,            \* eci_to_geodetic: the inertial position <<x, y, z>>
    gmst,           \* eci_to_geodetic: gmst % 360 at the instant dt
    geodetic        \* eci_to_geodetic: <<>> or <<what it returned>>

vars == <<end_time, step, threshold_km, current, prev_distance, prev_time,
          decreasing, conjunctions, pc, caller, start, end, precision,
          result, returned, known, tles, target_time, picked, visited,
          samples, declared, evals, brackets, refinements, prior,
          empty_tles, events, passes, minima, window_size, envelope,
          analysis, pos, gmst, geodetic>>

scanVars == <<current, prev_distance, prev_time, decreasing, conjunctions>>
paramVars == <<end_time, step, threshold_km, empty_tles>>
refineVars == <<start, end, precision, result, returned, evals, brackets>>
pickVars == <<tles, target_time, picked>>
geoVars == <<pos, gmst, geodetic>>
aggVars == <<events, passes, minima, window_size, envelope, analysis,
             pos, gmst, geodetic>>

\* ------------------------------------------------------------ propagation
NotEvaluated == [e |-> "none", d |-> 0]
\* propagate raised ValueError (SGP4 error code) for object A or object B.
Err == [e |-> "err", d |-> 0]
Good(d) == [e |-> "ok", d |-> d]

Outcomes == {Err} \cup {Good(d) : d \in DistVals}

Failed(o) == o.e = "err"

\* propagate(a), propagate(b), distance_km at instant t: the outcomes the
\* black box can give, consistent with what it gave before at t.
Propagate(kn, t) ==
    IF kn[t] # NotEvaluated THEN {kn[t]}
    ELSE {o \in Outcomes :
            Failed(o) =>
              Cardinality({u \in DOMAIN kn : Failed(kn[u])}) < MaxFail}

Record(kn, t, o) == [kn EXCEPT ![t] = o]

\* -------------------------------------------------------------- timedelta
\* timedelta / int: the quotient rounded to the nearest microsecond, ties
\* to even (n >= 0).
DivRound(n, k) ==
    LET q == n \div k
        r == n % k
    IN  IF 2 * r < k THEN q
        ELSE IF 2 * r > k THEN q + 1
        ELSE IF q % 2 = 0 THEN q ELSE q + 1

\* ---------------------------------------------------------------- detector
\* Mutant: a sample equal to the previous one also sets the flag.
FallingOrEqual(dist, prev) == prev # NoneVal /\ dist <= prev

\* if dist < prev_distance
Falling(dist, prev) == prev # NoneVal /\ dist < prev

\* Mutant: a minimum is declared on a sample equal to the previous one.
RisingOrEqual(dec, dist, prev) == prev # NoneVal /\ dec /\ dist >= prev

\* Mutant: the flag is not consulted.
RisingIgnoresFlag(dec, dist, prev) == prev # NoneVal /\ dist > prev

\* elif decreasing and dist > prev_distance
Rising(dec, dist, prev) == prev # NoneVal /\ dec /\ dist > prev

Last(s) == s[Len(s)]

\* sorted(conjunctions, key=distance): stable insertion sort.
RECURSIVE InsertByDistance(_, _)
InsertByDistance(s, c) ==
    IF s = <<>> THEN <<c>>
    ELSE IF c.distance < Head(s).distance THEN <<c>> \o s
    ELSE <<Head(s)>> \o InsertByDistance(Tail(s), c)

\* Mutant: the events are returned in the order of detection.
AsDetected(s) == s

RECURSIVE SortedByDistance(_)
SortedByDistance(s) ==
    IF s = <<>> THEN <<>>
    ELSE InsertByDistance(SortedByDistance(SubSeq(s, 1, Len(s) - 1)), Last(s))

\* ------------------------------------------------------------------- scan
\* Nothing has been given to eci_to_geodetic.
GeoIdle ==
    /\ pos = <<0, 0, 0>>
    /\ gmst = 0
    /\ geodetic = <<>>

\* Nothing has been given to the aggregation functions.
AggIdle ==
    /\ GeoIdle
    /\ events = <<>>
    /\ passes = <<>>
    /\ minima = <<>>
    /\ window_size = 0
    /\ envelope = <<>>
    /\ analysis = <<>>

InitScan ==
    /\ step \in 1..MaxStep
    /\ end_time \in {e \in Instants : e \div step < MaxVisits}
    /\ threshold_km = MaxDist
    /\ current = 0
    /\ prev_distance = NoneVal
    /\ prev_time = NoneVal
    /\ decreasing = FALSE
    /\ conjunctions = <<>>
    /\ pc = "scan"
    /\ caller = "find_conjunctions"
    /\ start = 0
    /\ end = 0
    /\ precision = REFINE_PRECISION
    /\ result = <<>>
    /\ returned = FALSE
    /\ known = [t \in Instants |-> NotEvaluated]
    /\ visited = <<>>
    /\ samples = <<>>
    /\ declared = <<>>
    /\ evals = <<>>
    /\ brackets = <<>>
    /\ refinements = <<>>
    /\ prior = <<>>
    /\ tles = <<>>
    /\ target_time = 0
    /\ picked = <<>>
    /\ empty_tles \in BOOLEAN
    /\ AggIdle

\* Mutant: the end of the window is excluded.
LoopGuardExclusive == current < end_time

\* while current <= end_time
LoopGuard == current <= end_time

\* Mutant: a failed propagation clears the flag.
OnPropagationErrorResets ==
    /\ decreasing' = FALSE
    /\ UNCHANGED <<prev_distance, prev_time, conjunctions>>

\* except ValueError: pass
OnPropagationError ==
    UNCHANGED <<prev_distance, prev_time, decreasing, conjunctions>>

\* Propagation fails at `current': except ValueError: pass.
ScanSkip ==
    /\ pc = "scan"
    /\ LoopGuard
    /\ ~empty_tles
    /\ \E o \in Propagate(known, current) :
         /\ Failed(o)
         /\ known' = Record(known, current, o)
    /\ visited' = Append(visited, current)
    /\ current' = current + step
    /\ OnPropagationError
    /\ UNCHANGED <<pc, caller, samples, declared, refinements, prior>>
    /\ UNCHANGED paramVars
    /\ UNCHANGED refineVars
    /\ UNCHANGED pickVars
    /\ UNCHANGED aggVars

\* A successful sample on which no minimum is declared.
ScanSample ==
    /\ pc = "scan"
    /\ LoopGuard
    /\ ~empty_tles
    /\ \E o \in Propagate(known, current) :
         /\ ~Failed(o)
         /\ ~Rising(decreasing, o.d, prev_distance)
         /\ known' = Record(known, current, o)
         /\ samples' = Append(samples, [time |-> current, distance |-> o.d])
         /\ decreasing' = IF Falling(o.d, prev_distance) THEN TRUE
                          ELSE decreasing
         /\ prev_distance' = o.d
    /\ prev_time' = current
    /\ visited' = Append(visited, current)
    /\ current' = current + step
    /\ UNCHANGED <<conjunctions, pc, caller, declared, refinements, prior>>
    /\ UNCHANGED paramVars
    /\ UNCHANGED refineVars
    /\ UNCHANGED pickVars
    /\ UNCHANGED aggVars

\* Mutant: the bracket starts at the minimum's own sample.
BracketStartAtPrevious(pt, st) == pt

\* prev_time - timedelta(seconds=step_seconds)
BracketStart(pt, st) == pt - st

\* A successful sample on which a minimum is declared: refine_minimum is
\* called on [prev_time - step, current].
ScanDetect ==
    /\ pc = "scan"
    /\ LoopGuard
    /\ ~empty_tles
    /\ \E o \in Propagate(known, current) :
         /\ ~Failed(o)
         /\ Rising(decreasing, o.d, prev_distance)
         /\ known' = Record(known, current, o)
         /\ samples' = Append(samples, [time |-> current, distance |-> o.d])
    /\ declared' = Append(declared, [index |-> Len(samples),
                                     time |-> prev_time,
                                     distance |-> prev_distance,
                                     lo |-> BracketStart(prev_time, step),
                                     hi |-> current])
    /\ visited' = Append(visited, current)
    /\ pc' = "refine"
    /\ start' = BracketStart(prev_time, step)
    /\ end' = current
    /\ precision' = REFINE_PRECISION
    /\ result' = <<>>
    /\ evals' = <<>>
    /\ brackets' = <<[start |-> BracketStart(prev_time, step),
                      end |-> current]>>
    /\ UNCHANGED <<caller, returned, refinements, prior>>
    /\ UNCHANGED scanVars
    /\ UNCHANGED paramVars
    /\ UNCHANGED pickVars
    /\ UNCHANGED aggVars

\* pick_closest_tle(tles_a, current) or pick_closest_tle(tles_b, current) is
\* given an empty list: min raises ValueError outside the try, and the
\* exception leaves find_conjunctions.
ScanRaise ==
    /\ pc = "scan"
    /\ LoopGuard
    /\ empty_tles
    /\ visited' = Append(visited, current)
    /\ pc' = "raised"
    /\ UNCHANGED <<caller, known, samples, declared, refinements, prior>>
    /\ UNCHANGED scanVars
    /\ UNCHANGED paramVars
    /\ UNCHANGED refineVars
    /\ UNCHANGED pickVars
    /\ UNCHANGED aggVars

\* The loop ends: return sorted(conjunctions, key=distance).
ScanReturn ==
    /\ pc = "scan"
    /\ ~LoopGuard
    /\ conjunctions' = SortedByDistance(conjunctions)
    /\ pc' = "done"
    /\ UNCHANGED <<current, prev_distance, prev_time, decreasing>>
    /\ UNCHANGED <<caller, known, visited, samples, declared>>
    /\ UNCHANGED <<refinements, prior>>
    /\ UNCHANGED paramVars
    /\ UNCHANGED refineVars
    /\ UNCHANGED pickVars
    /\ UNCHANGED aggVars

\* ----------------------------------------------------------- refine_minimum
\* Mutant: the bracket is cut in halves.
ThirdIsHalf(s, e) == DivRound(e - s, 2)

\* third = (end - start) / 3
Third(s, e) == DivRound(e - s, 3)

T1(s, e) == s + Third(s, e)

T2(s, e) == e - Third(s, e)

\* Mutant: the start of the bracket is returned.
MidPointAtStart(s, e) == s

\* mid = start + (end - start) / 2
MidPoint(s, e) == s + DivRound(e - s, 2)

LoopCond(s, e, p) == (e - s) > p

\* Mutant: equal separations at the third-points discard the right third.
NextBracketOrEqual(s, e, d1, d2) ==
    IF d1 <= d2 THEN [start |-> s, end |-> T2(s, e)]
    ELSE [start |-> T1(s, e), end |-> e]

\* if d1 < d2: end = t2, else: start = t1.
NextBracket(s, e, d1, d2) ==
    IF d1 < d2 THEN [start |-> s, end |-> T2(s, e)]
    ELSE [start |-> T1(s, e), end |-> e]

\* Mutant: the event is stamped with the end of the bracket.
EventAtEnd(t, d) == [time |-> end, distance |-> d]

Event(t, d) == [time |-> t, distance |-> d]

\* Mutant: an event at the threshold is kept.
AcceptsAtThreshold(res, thr) == res # <<>> /\ res[1].distance <= thr

\* if refined and refined['distance'] < threshold_km: conjunctions.append
Accepts(res, thr) == res # <<>> /\ res[1].distance < thr

\* Mutant: a refinement that returns None ends the scan.
ReturnNoneEndsScan(res) ==
    /\ result' = res
    /\ IF caller = "direct"
       THEN /\ pc' = "done"
            /\ returned' = TRUE
            /\ UNCHANGED scanVars
            /\ UNCHANGED refinements
       ELSE /\ returned' = FALSE
            /\ refinements' = Append(refinements, res)
            /\ conjunctions' = IF res # <<>> /\ res[1].distance < threshold_km
                               THEN Append(conjunctions, res[1])
                               ELSE conjunctions
            /\ IF res = <<>>
               THEN /\ pc' = "done"
                    /\ UNCHANGED <<decreasing, prev_distance, prev_time>>
                    /\ UNCHANGED current
               ELSE /\ pc' = "scan"
                    /\ decreasing' = FALSE
                    /\ prev_distance' = known[current].d
                    /\ prev_time' = current
                    /\ current' = current + step

\* refine_minimum returns `res' (<<>> is None).  A direct call ends there;
\* in find_conjunctions the rest of the loop body runs: the event is kept
\* when below the threshold, the flag is reset, the previous sample becomes
\* the current one and the loop instant advances.
Return(res) ==
    /\ result' = res
    /\ IF caller = "direct"
       THEN /\ pc' = "done"
            /\ returned' = TRUE
            /\ UNCHANGED scanVars
            /\ UNCHANGED refinements
       ELSE /\ pc' = "scan"
            /\ returned' = FALSE
            /\ refinements' = Append(refinements, res)
            /\ conjunctions' = IF Accepts(res, threshold_km)
                               THEN Append(conjunctions, res[1])
                               ELSE conjunctions
            /\ decreasing' = FALSE
            /\ prev_distance' = known[current].d
            /\ prev_time' = current
            /\ current' = current + step

\* Mutant: a failed propagation does not end the refinement.
RefineNoneRetries ==
    /\ UNCHANGED <<pc, result, returned, refinements>>
    /\ UNCHANGED scanVars

\* except ValueError: return None
RefineNone == Return(<<>>)

\* One iteration of the ternary search in which both third-points propagate.
RefineIterate ==
    /\ pc = "refine"
    /\ ~empty_tles
    /\ LoopCond(start, end, precision)
    /\ Len(brackets) <= MaxIter
    /\ LET t1 == T1(start, end)
           t2 == T2(start, end)
       IN  \E o1 \in Propagate(known, t1) :
             /\ ~Failed(o1)
             /\ \E o2 \in Propagate(Record(known, t1, o1), t2) :
                  /\ ~Failed(o2)
                  /\ known' = Record(Record(known, t1, o1), t2, o2)
                  /\ evals' = evals \o <<t1, t2>>
                  /\ LET b == NextBracket(start, end, o1.d, o2.d)
                     IN  /\ start' = b.start
                         /\ end' = b.end
                         /\ brackets' = Append(brackets, b)
    /\ UNCHANGED <<precision, result, returned, pc, caller>>
    /\ UNCHANGED <<visited, samples, declared, refinements, prior>>
    /\ UNCHANGED scanVars
    /\ UNCHANGED paramVars
    /\ UNCHANGED pickVars
    /\ UNCHANGED aggVars

\* Propagation fails at t1 (t2 is then not evaluated) or at t2:
\* except ValueError: return None.
RefineAbort ==
    /\ pc = "refine"
    /\ ~empty_tles
    /\ LoopCond(start, end, precision)
    /\ Len(brackets) <= MaxIter
    /\ LET t1 == T1(start, end)
           t2 == T2(start, end)
       IN  \E o1 \in Propagate(known, t1) :
             \/ /\ Failed(o1)
                /\ known' = Record(known, t1, o1)
                /\ evals' = Append(evals, t1)
             \/ /\ ~Failed(o1)
                /\ \E o2 \in Propagate(Record(known, t1, o1), t2) :
                     /\ Failed(o2)
                     /\ known' = Record(Record(known, t1, o1), t2, o2)
                     /\ evals' = evals \o <<t1, t2>>
    /\ RefineNone
    /\ UNCHANGED <<start, end, precision, brackets, caller>>
    /\ UNCHANGED <<visited, samples, declared, prior>>
    /\ UNCHANGED paramVars
    /\ UNCHANGED pickVars
    /\ UNCHANGED aggVars

\* The loop has ended: the separation is evaluated at the midpoint of the
\* bracket and returned, or None when propagation fails there.
RefineFinish ==
    /\ pc = "refine"
    /\ ~empty_tles
    /\ ~LoopCond(start, end, precision)
    /\ LET mid == MidPoint(start, end)
       IN  \E o \in Propagate(known, mid) :
             /\ known' = Record(known, mid, o)
             /\ evals' = Append(evals, mid)
             /\ IF Failed(o) THEN RefineNone
                ELSE Return(<<Event(mid, o.d)>>)
    /\ UNCHANGED <<start, end, precision, brackets, caller>>
    /\ UNCHANGED <<visited, samples, declared, prior>>
    /\ UNCHANGED paramVars
    /\ UNCHANGED pickVars
    /\ UNCHANGED aggVars

\* An empty list inside the loop: pick_closest_tle(tles_a, t1) raises
\* ValueError inside the try, and except ValueError: return None takes it.
RefineEmptyInLoop ==
    /\ pc = "refine"
    /\ empty_tles
    /\ LoopCond(start, end, precision)
    /\ RefineNone
    /\ UNCHANGED <<start, end, precision, brackets, evals, caller, known>>
    /\ UNCHANGED <<visited, samples, declared, prior>>
    /\ UNCHANGED paramVars
    /\ UNCHANGED pickVars
    /\ UNCHANGED aggVars

\* An empty list after the loop: pick_closest_tle(tles_a, mid) raises
\* ValueError before the try, and the exception leaves refine_minimum.
RefineEmptyAtMid ==
    /\ pc = "refine"
    /\ empty_tles
    /\ ~LoopCond(start, end, precision)
    /\ pc' = "raised"
    /\ UNCHANGED <<caller, known, visited, samples, declared>>
    /\ UNCHANGED <<refinements, prior>>
    /\ UNCHANGED scanVars
    /\ UNCHANGED paramVars
    /\ UNCHANGED refineVars
    /\ UNCHANGED pickVars
    /\ UNCHANGED aggVars

\* A direct call refine_minimum(tles_a, tles_b, start, end, precision_ms).
InitRefine ==
    /\ start \in Instants
    /\ end \in start..MaxEnd
    /\ precision \in 0..MaxPrecision
    /\ caller = "direct"
    /\ pc = "refine"
    /\ result = <<>>
    /\ returned = FALSE
    /\ evals = <<>>
    /\ brackets = <<[start |-> start, end |-> end]>>
    /\ known = [t \in Instants |-> NotEvaluated]
    /\ end_time = 0
    /\ step = 1
    /\ threshold_km = 1
    /\ current = 0
    /\ prev_distance = NoneVal
    /\ prev_time = NoneVal
    /\ decreasing = FALSE
    /\ conjunctions = <<>>
    /\ visited = <<>>
    /\ samples = <<>>
    /\ declared = <<>>
    /\ refinements = <<>>
    /\ prior = <<>>
    /\ tles = <<>>
    /\ target_time = 0
    /\ picked = <<>>
    /\ empty_tles \in BOOLEAN
    /\ AggIdle

\* refine_minimum is called again on the bracket a successful direct call
\* ended with (its width is already <= precision).
ReRefine ==
    /\ pc = "done"
    /\ caller = "direct"
    /\ returned
    /\ result # <<>>
    /\ prior = <<>>
    /\ prior' = result
    /\ pc' = "refine"
    /\ returned' = FALSE
    /\ result' = <<>>
    /\ evals' = <<>>
    /\ brackets' = <<[start |-> start, end |-> end]>>
    /\ UNCHANGED <<start, end, precision, caller, known>>
    /\ UNCHANGED <<visited, samples, declared, refinements>>
    /\ UNCHANGED scanVars
    /\ UNCHANGED paramVars
    /\ UNCHANGED pickVars
    /\ UNCHANGED aggVars

\* -------------------------------------------------------- pick_closest_tle
\* A TLERecord: its epoch, and the lines it was parsed from (here the place
\* it has in the list, which tells records of equal epoch apart).
TLERecord(epoch, line) == [epoch |-> epoch, line |-> line]

Abs(x) == IF x < 0 THEN 0 - x ELSE x

\* Mutant: the difference is not made absolute.
EpochKeySigned(t, target) == t.epoch - target

\* key=lambda t: abs((t.epoch - target_time).total_seconds()).
\* total_seconds() is strictly increasing in the microsecond count while
\* that count is below 2^52 (142 years), so keys compare as the counts do.
EpochKey(t, target) == Abs(t.epoch - target)

\* Mutant: of equally near records the last one is kept.
RECURSIVE MinByKeyLast(_, _, _)
MinByKeyLast(ts, target, best) ==
    IF ts = <<>> THEN best
    ELSE MinByKeyLast(Tail(ts), target,
                      IF EpochKey(Head(ts), target) <= EpochKey(best, target)
                      THEN Head(ts) ELSE best)

\* min(iterable, key): the first element whose key no later element beats.
RECURSIVE MinByKey(_, _, _)
MinByKey(ts, target, best) ==
    IF ts = <<>> THEN best
    ELSE MinByKey(Tail(ts), target,
                  IF EpochKey(Head(ts), target) < EpochKey(best, target)
                  THEN Head(ts) ELSE best)

PickClosestTle(ts, target) == MinByKey(Tail(ts), target, Head(ts))

\* The lists load_tle_file returns: sorted by epoch, the line number telling
\* records of equal epoch apart.
SnapshotLists ==
    UNION {{[i \in 1..n |-> TLERecord(f[i], i)] :
              f \in {g \in [1..n -> Instants] :
                       \A i \in 1..(n - 1) : g[i] <= g[i + 1]}} :
           n \in 0..MaxTles}

\* Neither find_conjunctions nor refine_minimum is running.
EngineIdle ==
    /\ caller = "direct"
    /\ start = 0
    /\ end = 0
    /\ precision = REFINE_PRECISION
    /\ result = <<>>
    /\ returned = FALSE
    /\ evals = <<>>
    /\ brackets = <<>>
    /\ known = [t \in Instants |-> NotEvaluated]
    /\ end_time = 0
    /\ step = 1
    /\ threshold_km = 1
    /\ current = 0
    /\ prev_distance = NoneVal
    /\ prev_time = NoneVal
    /\ decreasing = FALSE
    /\ conjunctions = <<>>
    /\ visited = <<>>
    /\ samples = <<>>
    /\ declared = <<>>
    /\ refinements = <<>>
    /\ prior = <<>>

\* Nothing has been given to pick_closest_tle.
PickIdle ==
    /\ tles = <<>>
    /\ target_time = 0
    /\ picked = <<>>

InitPick ==
    /\ tles \in SnapshotLists
    /\ target_time \in Instants
    /\ picked = <<>>
    /\ pc = "pick"
    /\ empty_tles = (tles = <<>>)
    /\ EngineIdle
    /\ AggIdle

\* min(tles, key=...): ValueError on an empty list.
PickClosest ==
    /\ pc = "pick"
    /\ IF tles = <<>>
       THEN /\ pc' = "raised"
            /\ picked' = picked
       ELSE /\ pc' = "done"
            /\ picked' = <<PickClosestTle(tles, target_time)>>
    /\ UNCHANGED <<tles, target_time, caller, known>>
    /\ UNCHANGED <<visited, samples, declared, refinements, prior>>
    /\ UNCHANGED scanVars
    /\ UNCHANGED paramVars
    /\ UNCHANGED refineVars
    /\ UNCHANGED aggVars

\* ------------------------------------------------ the other minimum detectors
Distances(smp) == [i \in 1..Len(smp) |-> smp[i].distance]

\* Mutant: the comparisons are reversed, so that maxima are reported.
FindLocalMaxima(distances) ==
    {i \in 2..(Len(distances) - 1) :
        distances[i] > distances[i - 1] /\ distances[i] > distances[i + 1]}

\* envelope_analysis.find_local_minima: the indices it appends.
FindLocalMinima(distances) ==
    {i \in 2..(Len(distances) - 1) :
        distances[i] < distances[i - 1] /\ distances[i] < distances[i + 1]}

\* scan_dec17.scan_all_approaches over the successful samples smp[i..]:
\* the sets of indices it can append.  On a detection it propagates both
\* objects to prev_time again, inside the try: when that raises, nothing is
\* appended and neither the flag nor the previous sample changes.
RECURSIVE ScanAllApproaches(_, _, _, _, _, _)
ScanAllApproaches(smp, thr, i, prev, dec, acc) ==
    IF i > Len(smp) THEN {acc}
    ELSE LET dist == smp[i].distance
             prev_dist == IF prev = 0 THEN NoneVal ELSE smp[prev].distance
         IN  IF prev # 0 /\ dist < prev_dist
             THEN ScanAllApproaches(smp, thr, i + 1, i, TRUE, acc)
             ELSE IF prev # 0 /\ dec /\ dist > prev_dist /\ prev_dist < thr
             THEN ScanAllApproaches(smp, thr, i + 1, i, FALSE,
                                    acc \cup {prev})
                  \cup ScanAllApproaches(smp, thr, i + 1, prev, dec, acc)
             ELSE ScanAllApproaches(smp, thr, i + 1, i, dec, acc)

\* The flag detector of find_conjunctions run over a sequence of samples
\* none of which fails: the indices at which it declares a minimum.
RECURSIVE FlagMinima(_, _, _, _)
FlagMinima(distances, i, dec, acc) ==
    IF i > Len(distances) THEN acc
    ELSE LET prev == IF i = 1 THEN NoneVal ELSE distances[i - 1]
         IN  IF Falling(distances[i], prev)
             THEN FlagMinima(distances, i + 1, TRUE, acc)
             ELSE IF Rising(dec, distances[i], prev)
             THEN FlagMinima(distances, i + 1, FALSE, Append(acc, i - 1))
             ELSE FlagMinima(distances, i + 1, dec, acc)

\* ---------------------------------------------------------- specifications
Init == InitScan

Next ==
    \/ ScanSkip
    \/ ScanSample
    \/ ScanDetect
    \/ ScanRaise
    \/ ScanReturn
    \/ RefineIterate
    \/ RefineAbort
    \/ RefineFinish

Spec == Init /\ [][Next]_vars

NextRefine ==
    \/ RefineIterate
    \/ RefineAbort
    \/ RefineFinish
    \/ RefineEmptyInLoop
    \/ RefineEmptyAtMid
    \/ ReRefine

SpecRefine == InitRefine /\ [][NextRefine]_vars

NextPick == PickClosest

SpecPick == InitPick /\ [][NextPick]_vars

\* ------------------------------------------------------------------ claims
\* This step took a successful sample.
Sampled == Len(samples') = Len(samples) + 1

\* This step declared a minimum.
Declared == Len(declared') = Len(declared) + 1

\* C1: in the sampling scan a minimum is declared on a new sample exactly
\* when the flag is true and the new distance is strictly greater than the
\* previous one; it is attributed to the previous sample, not the current
\* one; the flag is false once the declaration has been handled; and between
\* two declared minima there is a strictly falling step.
C1_DeclaredExactlyOnRise ==
    /\ [][/\ Declared <=> /\ Sampled
                          /\ decreasing
                          /\ prev_distance # NoneVal
                          /\ Last(samples').distance > prev_distance
          /\ Declared \/ declared' = declared
          /\ Declared =>
               /\ Last(declared').time = prev_time
               /\ Last(declared').distance = prev_distance
               /\ Last(declared').index = Len(samples)
               /\ Last(declared').time < Last(samples').time
               /\ samples[Len(samples)].time = prev_time
          /\ (pc = "refine" /\ pc' = "scan") => ~decreasing'
         ]_vars
    /\ [](\A k \in 1..(Len(declared) - 1) :
            \E j \in (declared[k].index + 1)..declared[k + 1].index :
               samples[j].distance < samples[j - 1].distance)

C1_Witness ==
    /\ pc = "done"
    /\ Len(declared) >= 2

\* The sample at index i has a raw sample before it and one after it, and
\* its distance exceeds neither.
NotAboveNeighbours(smp, i) ==
    /\ 1 < i
    /\ i < Len(smp)
    /\ smp[i].distance <= smp[i - 1].distance
    /\ smp[i].distance <= smp[i + 1].distance

\* C2: whatever the sampled distances, the sample at which a minimum is
\* declared (by the flag detector of find_conjunctions, by find_local_minima
\* and by scan_all_approaches) has a distance that exceeds neither the raw
\* sample just before it nor the raw sample just after it.
C2_MinimumNotAboveNeighbours ==
    /\ \A k \in 1..Len(declared) : NotAboveNeighbours(samples, declared[k].index)
    /\ \A i \in FindLocalMinima(Distances(samples)) :
         NotAboveNeighbours(samples, i)
    /\ \A acc \in ScanAllApproaches(samples, threshold_km, 1, 0, FALSE, {}) :
         \A i \in acc : NotAboveNeighbours(samples, i)

C2_Witness ==
    /\ pc = "done"
    /\ Len(declared) >= 1
    /\ \E k \in 1..Len(declared) :
         /\ declared[k].index \in FindLocalMinima(Distances(samples))
         /\ samples[declared[k].index - 1].distance
              # samples[declared[k].index + 1].distance
    /\ \E acc \in ScanAllApproaches(samples, threshold_km, 1, 0, FALSE, {}) :
         acc # {}

\* C3 as claimed: for every bracket the detector hands to the refiner, the
\* distance of the event refine_minimum returns is at most the distance of
\* the raw sample before the detected minimum and at most that of the
\* rising sample after it.
C3_RefinedNotAboveSamples ==
    \A k \in 1..Len(refinements) :
       refinements[k] # <<>> =>
          /\ refinements[k][1].distance
               <= samples[declared[k].index - 1].distance
          /\ refinements[k][1].distance
               <= samples[declared[k].index + 1].distance

\* C3 as amended: the event refine_minimum returns for a bracket of the
\* detector lies at an instant of that bracket, prev_time - step <= time <=
\* current, and its distance is the separation evaluated at that instant.
C3_RefinedInsideBracket ==
    \A k \in 1..Len(refinements) :
       refinements[k] # <<>> =>
          /\ declared[k].lo <= refinements[k][1].time
          /\ refinements[k][1].time <= declared[k].hi
          /\ declared[k].lo = declared[k].time - step
          /\ declared[k].hi = samples[declared[k].index + 1].time
          /\ known[refinements[k][1].time] = Good(refinements[k][1].distance)

C3_Witness ==
    \E k \in 1..Len(refinements) :
       /\ refinements[k] # <<>>
       /\ refinements[k][1].distance > samples[declared[k].index + 1].distance
       /\ refinements[k][1].time # declared[k].time

\* Some member of the list has the same epoch and lines as r.
Member(r, ts) == \E i \in 1..Len(ts) : ts[i] = r

\* C4: for every non-empty snapshot list and every instant, pick_closest_tle
\* returns a member of the list whose absolute epoch-to-instant difference
\* is at most that of every member (a list element, never a blend of two).
C4_PickedIsNearestMember ==
    picked # <<>> =>
       /\ Member(picked[1], tles)
       /\ \A i \in 1..Len(tles) :
            Abs(picked[1].epoch - target_time)
              <= Abs(tles[i].epoch - target_time)

C4_Witness ==
    /\ picked # <<>>
    /\ Len(tles) >= 3
    /\ picked[1].line > 1
    /\ \E i, j \in 1..Len(tles) :
         /\ tles[i].epoch < target_time
         /\ target_time < tles[j].epoch
         /\ Abs(tles[i].epoch - target_time) > Abs(picked[1].epoch - target_time)

\* C5: the scan runs its body at exactly the instants start + k*step that
\* are <= end (start is 0 here), each once and in increasing order, the end
\* itself when it is such an instant; the samples are finitely many,
\* strictly increasing in time and a multiple of the step apart.
C5_ScanVisitsGrid ==
    /\ \A k \in 1..Len(visited) :
         /\ visited[k] = (k - 1) * step
         /\ visited[k] <= end_time
    /\ pc = "done" =>
         /\ \A t \in 0..end_time :
              t % step = 0 => \E k \in 1..Len(visited) : visited[k] = t
         /\ end_time % step = 0 => Last(visited) = end_time
    /\ Len(samples) <= Len(visited)
    /\ \A i, j \in 1..Len(samples) :
         i < j =>
            /\ samples[i].time < samples[j].time
            /\ (samples[j].time - samples[i].time) % step = 0
    /\ \A i \in 1..Len(samples) :
         \E k \in 1..Len(visited) : visited[k] = samples[i].time

C5_Witness ==
    /\ pc = "done"
    /\ step > 1
    /\ Len(visited) >= 3
    /\ Last(visited) = end_time
    /\ Len(samples) < Len(visited)
    /\ Len(samples) >= 2

\* The minima declared so far, as indices into the samples.
DeclaredIndices == [k \in 1..Len(declared) |-> declared[k].index]

\* C6: when propagation fails at a sampled instant, that instant gives no
\* sample, previous distance, previous instant and flag stay as they were
\* and the scan goes on with the next instant; the minima declared are
\* those the detector declares on the successful samples alone.
C6_FailedInstantIsSkipped ==
    /\ [][(/\ pc = "scan"
           /\ Len(visited') = Len(visited) + 1
           /\ Failed(known'[current]))
          => /\ UNCHANGED <<prev_distance, prev_time, decreasing>>
             /\ UNCHANGED <<samples, declared, conjunctions>>
             /\ current' = current + step
             /\ pc' = "scan"
         ]_vars
    /\ [](/\ \A k \in 1..Len(visited) :
               \/ empty_tles
               \/ Failed(known[visited[k]])
                    <=> ~\E i \in 1..Len(samples) : samples[i].time = visited[k]
          /\ \A i \in 1..Len(samples) :
               known[samples[i].time] = Good(samples[i].distance)
          /\ DeclaredIndices = FlagMinima(Distances(samples), 1, FALSE, <<>>))

C6_Witness ==
    /\ pc = "done"
    /\ \E k \in 1..Len(declared) :
         /\ declared[k].hi - declared[k].time > step
         /\ Failed(known[declared[k].time + step])

\* C7: with no propagation failure a direct call leaves the loop with a
\* bracket no wider than precision that lies inside the bracket given, and
\* returns its midpoint (to the microsecond) with the distance evaluated
\* there; a bracket already no wider than precision is returned at its
\* midpoint with no iteration and one evaluation, so calling refine_minimum
\* again on the final bracket moves the instant by at most precision/2.
C7_ReturnsMidpointOfFinalBracket ==
    (returned /\ result # <<>>) =>
       LET b0 == brackets[1]
           bf == Last(brackets)
           ev == result[1]
       IN  /\ bf.start = start
           /\ bf.end = end
           /\ bf.end - bf.start <= precision
           /\ b0.start <= bf.start
           /\ bf.start <= bf.end
           /\ bf.end <= b0.end
           /\ Abs(2 * ev.time - (bf.start + bf.end)) <= 1
           /\ known[ev.time] = Good(ev.distance)
           /\ (b0.end - b0.start <= precision) =>
                 /\ Len(brackets) = 1
                 /\ evals = <<ev.time>>
           /\ prior # <<>> =>
                 /\ Len(brackets) = 1
                 /\ 2 * Abs(ev.time - prior[1].time) <= precision

C7_Witness ==
    /\ returned
    /\ result # <<>>
    /\ prior # <<>>
    /\ end - start = precision
    /\ precision = MaxPrecision
    /\ Len(evals) = 1

\* C8: when propagation fails at a point refine_minimum evaluates (a
\* third-point of any iteration or the final midpoint) it returns None in
\* that very step: no further iteration runs, every earlier evaluation had
\* succeeded and the failing point is evaluated once.
C8_FailureReturnsNoneAtOnce ==
    /\ [][/\ (/\ pc = "refine"
              /\ evals' # evals
              /\ Failed(known'[Last(evals')]))
             => /\ pc' = "done"
                /\ returned'
                /\ result' = <<>>
                /\ brackets' = brackets
          /\ (returned /\ result = <<>>) => evals' = evals
         ]_vars
    /\ []((returned /\ result = <<>> /\ ~empty_tles) =>
            /\ evals # <<>>
            /\ Failed(known[Last(evals)])
            /\ \A i \in 1..(Len(evals) - 1) :
                 /\ ~Failed(known[evals[i]])
                 /\ evals[i] # Last(evals))

C8_Witness ==
    /\ returned
    /\ result = <<>>
    /\ Len(brackets) >= 3
    /\ Len(evals) % 2 = 0

Min(a, b) == IF a <= b THEN a ELSE b

Max(a, b) == IF a >= b THEN a ELSE b

\* Both endpoints of bracket b have been propagated without failure.
EndpointsKnown(b) == known[b.start].e = "ok" /\ known[b.end].e = "ok"

\* The smaller of the separations at the two endpoints of bracket b.
EndpointMin(b) == Min(known[b.start].d, known[b.end].d)

\* The separations evaluated inside bracket b are those of a function that
\* strictly decreases and then strictly increases.
StrictlyUnimodalOn(b) ==
    \A x, y, z \in b.start..b.end :
       (/\ x < y
        /\ y < z
        /\ known[x].e = "ok"
        /\ known[y].e = "ok"
        /\ known[z].e = "ok")
       => known[y].d < Max(known[x].d, known[z].d)

\* C9 as claimed: on every bracket produced by the detector the smaller of
\* the two endpoint separations of the retained bracket never increases
\* from one iteration of the ternary search to the next.
C9_EndpointMinNeverIncreases ==
    \A i \in 1..(Len(brackets) - 1) :
       (EndpointsKnown(brackets[i]) /\ EndpointsKnown(brackets[i + 1]))
       => EndpointMin(brackets[i + 1]) <= EndpointMin(brackets[i])

\* C9 as amended: when the separation is strictly unimodal inside the
\* bracket the detector produced, an iteration on a bracket wider than two
\* clock ticks (its third-points differ) does not increase the smaller of
\* the two endpoint separations of the retained bracket.
C9_EndpointMinNeverIncreasesIfUnimodal ==
    (brackets # <<>> /\ StrictlyUnimodalOn(brackets[1])) =>
       \A i \in 1..(Len(brackets) - 1) :
          (/\ EndpointsKnown(brackets[i])
           /\ EndpointsKnown(brackets[i + 1])
           /\ brackets[i].end - brackets[i].start > 2)
          => EndpointMin(brackets[i + 1]) <= EndpointMin(brackets[i])

C9_Witness ==
    /\ Len(brackets) >= 3
    /\ StrictlyUnimodalOn(brackets[1])
    /\ EndpointsKnown(brackets[1])
    /\ EndpointMin(brackets[3]) < EndpointMin(brackets[1])
    /\ \E t \in Instants : Failed(known[t])

\* C10: a sample whose distance equals the previous sample's distance
\* leaves the decreasing flag as it was, declares no minimum and hands
\* nothing to the refiner; a scan whose samples all have the same distance
\* declares no minimum at all.
C10_PlateauChangesNothing ==
    /\ [][(/\ Sampled
           /\ prev_distance # NoneVal
           /\ Last(samples').distance = prev_distance)
          => /\ decreasing' = decreasing
             /\ declared' = declared
             /\ conjunctions' = conjunctions
             /\ pc' = "scan"
         ]_vars
    /\ []((\A i, j \in 1..Len(samples) :
             samples[i].distance = samples[j].distance)
          => /\ declared = <<>>
             /\ conjunctions = <<>>
             /\ ~decreasing
             /\ FindLocalMinima(Distances(samples)) = {})

C10_Witness ==
    /\ pc = "done"
    /\ Len(samples) >= 4
    /\ samples[1].distance > samples[2].distance
    /\ samples[2].distance = samples[3].distance
    /\ samples[3].distance < samples[4].distance
    /\ Len(declared) = 1
    /\ declared[1].index = 3

\* C11: no minimum is declared at the first or at the last successful
\* sample of a window, by the flag detector or by find_local_minima: the
\* first sample changes neither the flag nor the minima, and a minimum is
\* only ever declared at a sample that has a later sample.
C11_NoMinimumAtWindowEdge ==
    /\ [][(Sampled /\ samples = <<>>)
          => /\ declared' = declared
             /\ decreasing' = decreasing
             /\ conjunctions' = conjunctions
             /\ pc' = "scan"
         ]_vars
    /\ [](/\ \A k \in 1..Len(declared) :
               /\ 1 < declared[k].index
               /\ declared[k].index < Len(samples)
               /\ declared[k].time # samples[1].time
               /\ declared[k].time # Last(samples).time
          /\ 1 \notin FindLocalMinima(Distances(samples))
          /\ Len(samples) \notin FindLocalMinima(Distances(samples)))

C11_Witness ==
    /\ pc = "done"
    /\ Len(samples) >= 4
    /\ samples[1].distance < samples[2].distance
    /\ Last(samples).distance < samples[Len(samples) - 1].distance
    /\ Len(declared) = 1

\* C15 as claimed: with an empty snapshot list for either object neither
\* pick_closest_tle, find_conjunctions nor refine_minimum returns: the
\* ValueError of min() reaches the caller.
C15_EmptyCatalogReachesCaller ==
    empty_tles => pc # "done"

\* -------------------------------------------------------- group_into_passes
\* Times of the lists given to group_into_passes are whole seconds.
Hours(n) == n * 3600

\* Mutant: a gap equal to the threshold starts a new pass.
NewPassAtThreshold(gap) == gap >= PASS_GAP_SECONDS

\* Mutant: the threshold is four hours.
NewPassOverFourHours(gap) == gap > Hours(4)

\* if gap > 1800
NewPass(gap) == gap > PASS_GAP_SECONDS

\* The loop of group_into_passes from item i on.
RECURSIVE GroupFrom(_, _, _, _)
GroupFrom(ev, i, acc, current_pass) ==
    IF i > Len(ev) THEN Append(acc, current_pass)
    ELSE IF NewPass(ev[i].time - ev[i - 1].time)
         THEN GroupFrom(ev, i + 1, Append(acc, current_pass), <<ev[i]>>)
         ELSE GroupFrom(ev, i + 1, acc, Append(current_pass, ev[i]))

\* if not samples: return []
GroupIntoPasses(ev) ==
    IF ev = <<>> THEN <<>> ELSE GroupFrom(ev, 2, <<>>, <<ev[1]>>)

\* Gaps between consecutive items: around the threshold, and those of a
\* multi-day sequence of conjunctions.
GapVals ==
    {0, 1, PASS_GAP_SECONDS - 1, PASS_GAP_SECONDS, PASS_GAP_SECONDS + 1,
     Hours(3), Hours(34), Hours(37)}

\* The time of item i of a list starting at 0 with gaps g.
RECURSIVE TimeAt(_, _)
TimeAt(g, i) == IF i = 1 THEN 0 ELSE TimeAt(g, i - 1) + g[i - 1]

\* Time-ordered lists of items {'time': ...}; n tells the items apart.
EventLists ==
    {<<>>} \cup
    UNION {{[i \in 1..n |-> [time |-> TimeAt(g, i), n |-> i]] :
              g \in [1..(n - 1) -> GapVals]} : n \in 1..MaxEvents}

InitPasses ==
    /\ events \in EventLists
    /\ passes = <<>>
    /\ minima = <<>>
    /\ window_size = 0
    /\ envelope = <<>>
    /\ analysis = <<>>
    /\ GeoIdle
    /\ pc = "group"
    /\ empty_tles = FALSE
    /\ EngineIdle
    /\ PickIdle

\* passes = group_into_passes(samples)
GroupPasses ==
    /\ pc = "group"
    /\ passes' = <<GroupIntoPasses(events)>>
    /\ pc' = "done"
    /\ UNCHANGED <<events, minima, window_size, envelope, analysis>>
    /\ UNCHANGED geoVars
    /\ UNCHANGED <<caller, known, visited, samples, declared>>
    /\ UNCHANGED <<refinements, prior>>
    /\ UNCHANGED scanVars
    /\ UNCHANGED paramVars
    /\ UNCHANGED refineVars
    /\ UNCHANGED pickVars

NextPasses == GroupPasses

SpecPasses == InitPasses /\ [][NextPasses]_vars

\* The concatenation of a list of lists.
RECURSIVE Concat(_)
Concat(ps) == IF ps = <<>> THEN <<>> ELSE Head(ps) \o Concat(Tail(ps))

\* The positions j of a list ev whose next item is more than the threshold
\* later.
LongGaps(ev) ==
    {j \in 1..(Len(ev) - 1) : ev[j + 1].time - ev[j].time > PASS_GAP_SECONDS}

\* The positions of the input at which a pass of ps ends before another
\* begins.
RECURSIVE PassEnds(_, _)
PassEnds(ps, k) ==
    IF k >= Len(ps) THEN {}
    ELSE {Len(Concat(SubSeq(ps, 1, k)))} \cup PassEnds(ps, k + 1)

\* C12: for a time-ordered list group_into_passes starts a new pass between
\* two consecutive items exactly when the later one is more than 1800 s
\* after the earlier one; no pass is empty, the passes concatenated are the
\* input, there is one pass more than there are gaps over 1800 s, and the
\* empty list gives no pass.
C12_PassesSplitAtLongGaps ==
    passes # <<>> =>
       LET ps == passes[1]
       IN  /\ \A k \in 1..Len(ps) : ps[k] # <<>>
           /\ Concat(ps) = events
           /\ PassEnds(ps, 1) = LongGaps(events)
           /\ events # <<>> => Len(ps) = 1 + Cardinality(LongGaps(events))
           /\ events = <<>> => ps = <<>>

C12_Witness ==
    /\ passes # <<>>
    /\ Len(events) = MaxEvents
    /\ Len(passes[1]) = 2
    /\ events[2].time - events[1].time = PASS_GAP_SECONDS
    /\ events[3].time - events[2].time = PASS_GAP_SECONDS + 1

\* A 5-day sequence of 3 conjunctions 37 hours apart, one of them a pair
\* of events 3 hours apart.
ThreeConjunctions(ev) ==
    /\ Len(ev) = 4
    /\ Cardinality({j \in 1..3 : ev[j + 1].time - ev[j].time = Hours(3)}) = 1
    /\ \A j \in 1..3 :
         ev[j + 1].time - ev[j].time \in {Hours(3), Hours(34), Hours(37)}
    /\ \E j \in 1..3 : ev[j + 1].time - ev[j].time = Hours(37)
    /\ ev[4].time - ev[1].time <= Hours(120)

\* C20 as claimed: on that sequence group_into_passes returns exactly 3
\* passes, the two events 3 hours apart in one pass.
C20_ThreePasses ==
    (passes # <<>> /\ ThreeConjunctions(events)) => Len(passes[1]) = 3

\* C20 as amended: on that sequence group_into_passes returns 4 passes of
\* one event each; the two events 3 hours apart are in different passes.
C20_FourPasses ==
    (passes # <<>> /\ ThreeConjunctions(events)) =>
       /\ Len(passes[1]) = 4
       /\ \A k \in 1..4 : passes[1][k] = <<events[k]>>

C20_Witness ==
    /\ passes # <<>>
    /\ ThreeConjunctions(events)
    /\ events[3].time - events[2].time = Hours(3)
    /\ events[2].time - events[1].time = Hours(37)

\* ----------------------------------------------------- find_envelope_minima
\* Mutant: the half window is not kept at 2 or more.
HalfWindowUnclamped(w) == w \div 2

\* half_window = max(2, window_size // 2)
HalfWindow(w) == Max(2, w \div 2)

\* minima_distances[i] == min(window), and no j of the window has a smaller
\* distance (1-based i).
IsWindowMinimum(m, i, hw) ==
    \A j \in (i - hw)..(i + hw) : ~(m[j].distance < m[i].distance)

\* Mutant: a candidate exactly one hour after the last accepted is kept.
FarEnoughOrEqual(acc, t) ==
    acc = <<>> \/ t - Last(acc).time >= DEDUP_SECONDS

\* not envelope_times or (minima_times[i] - envelope_times[-1]) > 3600 s
FarEnough(acc, t) ==
    acc = <<>> \/ t - Last(acc).time > DEDUP_SECONDS

\* for i in range(half_window, len(minima_distances) - half_window), from
\* the 1-based index i on; acc holds envelope_times and envelope_distances.
RECURSIVE EnvelopeFrom(_, _, _, _)
EnvelopeFrom(m, i, hw, acc) ==
    IF i > Len(m) - hw THEN acc
    ELSE IF IsWindowMinimum(m, i, hw) /\ FarEnough(acc, m[i].time)
         THEN EnvelopeFrom(m, i + 1, hw, Append(acc, m[i]))
         ELSE EnvelopeFrom(m, i + 1, hw, acc)

\* envelope_periods, kept in seconds (the code divides each by 3600).
Periods(acc) ==
    [k \in 1..(Len(acc) - 1) |-> acc[k + 1].time - acc[k].time]

\* find_envelope_minima(minima_times, minima_distances, window_size)
FindEnvelopeMinima(m, w) ==
    IF Len(m) < 3 THEN [minima |-> <<>>, periods |-> <<>>]
    ELSE LET acc == EnvelopeFrom(m, HalfWindow(w) + 1, HalfWindow(w), <<>>)
         IN  [minima |-> acc, periods |-> Periods(acc)]

\* Gaps between consecutive minima: the de-duplication interval exactly,
\* and just over it.
MinimaGaps == {DEDUP_SECONDS, DEDUP_SECONDS + 1}

\* The list of n minima in ascending time order with gaps g and distances d.
MinimaList(n, g, d) ==
    [i \in 1..n |-> [time |-> TimeAt(g, i), distance |-> d[i]]]

WindowSizes == {0, MaxWindow - 1, MaxWindow}

InitEnvelope ==
    /\ \E n \in 0..MaxMinima :
         \E g \in [1..(n - 1) -> MinimaGaps], d \in [1..n -> 0..MaxDepth] :
            minima = MinimaList(n, g, d)
    /\ window_size \in WindowSizes
    /\ envelope = <<>>
    /\ events = <<>>
    /\ passes = <<>>
    /\ analysis = <<>>
    /\ GeoIdle
    /\ pc = "envelope"
    /\ empty_tles = FALSE
    /\ EngineIdle
    /\ PickIdle

\* envelope = find_envelope_minima(minima_times, minima_distances, window_size)
EnvelopeMinima ==
    /\ pc = "envelope"
    /\ envelope' = <<FindEnvelopeMinima(minima, window_size)>>
    /\ pc' = "done"
    /\ UNCHANGED <<events, passes, minima, window_size, analysis>>
    /\ UNCHANGED geoVars
    /\ UNCHANGED <<caller, known, visited, samples, declared>>
    /\ UNCHANGED <<refinements, prior>>
    /\ UNCHANGED scanVars
    /\ UNCHANGED paramVars
    /\ UNCHANGED refineVars
    /\ UNCHANGED pickVars

NextEnvelope == EnvelopeMinima

SpecEnvelope == InitEnvelope /\ [][NextEnvelope]_vars

C14_EnvelopeMinimaOverAnHourApart ==
    envelope # <<>> =>
       LET r == envelope[1]
       IN  /\ \A k \in 1..(Len(r.minima) - 1) :
                r.minima[k + 1].time - r.minima[k].time > 3600
           /\ Len(r.periods) = (IF r.minima = <<>> THEN 0
                                ELSE Len(r.minima) - 1)
           /\ \A k \in 1..Len(r.periods) :
                /\ r.periods[k] = r.minima[k + 1].time - r.minima[k].time
                /\ r.periods[k] > 3600

C14_Witness ==
    /\ envelope # <<>>
    /\ Len(envelope[1].minima) = 2
    /\ Len(minima) = MaxMinima
    /\ \A i, j \in 1..Len(minima) : minima[i].distance = minima[j].distance
    /\ minima[4].time - minima[3].time = DEDUP_SECONDS + 1
    /\ minima[3].time - minima[2].time = DEDUP_SECONDS

\* --------------------------------------------------------- analyze_envelope
\* analyze_envelope(sat_a, sat_b, duration_days, step_minutes): the window
\* starts at 0 and sample_distances begins.
InitAnalyze ==
    /\ step \in 1..MaxStep
    /\ end_time \in {e \in Instants : e \div step < MaxVisits}
    /\ threshold_km = MaxDist
    /\ empty_tles = FALSE
    /\ current = 0
    /\ prev_distance = NoneVal
    /\ prev_time = NoneVal
    /\ decreasing = FALSE
    /\ conjunctions = <<>>
    /\ pc = "sample"
    /\ caller = "analyze_envelope"
    /\ start = 0
    /\ end = 0
    /\ precision = REFINE_PRECISION
    /\ result = <<>>
    /\ returned = FALSE
    /\ known = [t \in Instants |-> NotEvaluated]
    /\ visited = <<>>
    /\ samples = <<>>
    /\ declared = <<>>
    /\ evals = <<>>
    /\ brackets = <<>>
    /\ refinements = <<>>
    /\ prior = <<>>
    /\ PickIdle
    /\ AggIdle

\* sample_distances: propagation succeeds at `current'; times and distances
\* get one more entry.
SampleOk ==
    /\ pc = "sample"
    /\ LoopGuard
    /\ \E o \in Propagate(known, current) :
         /\ ~Failed(o)
         /\ known' = Record(known, current, o)
         /\ samples' = Append(samples, [time |-> current, distance |-> o.d])
    /\ visited' = Append(visited, current)
    /\ current' = current + step
    /\ UNCHANGED <<prev_distance, prev_time, decreasing, conjunctions>>
    /\ UNCHANGED <<pc, caller, declared, refinements, prior>>
    /\ UNCHANGED paramVars
    /\ UNCHANGED refineVars
    /\ UNCHANGED pickVars
    /\ UNCHANGED aggVars

\* sample_distances: propagation fails at `current': except ValueError: pass.
SampleFail ==
    /\ pc = "sample"
    /\ LoopGuard
    /\ \E o \in Propagate(known, current) :
         /\ Failed(o)
         /\ known' = Record(known, current, o)
    /\ visited' = Append(visited, current)
    /\ current' = current + step
    /\ UNCHANGED <<prev_distance, prev_time, decreasing, conjunctions>>
    /\ UNCHANGED <<pc, caller, samples, declared, refinements, prior>>
    /\ UNCHANGED paramVars
    /\ UNCHANGED refineVars
    /\ UNCHANGED pickVars
    /\ UNCHANGED aggVars

\* find_local_minima(times, distances): the minima, in time order, from
\* index i on.
RECURSIVE LocalMinimaFrom(_, _)
LocalMinimaFrom(smp, i) ==
    IF i > Len(smp) THEN <<>>
    ELSE IF i \in FindLocalMinima(Distances(smp))
         THEN <<smp[i]>> \o LocalMinimaFrom(smp, i + 1)
         ELSE LocalMinimaFrom(smp, i + 1)

\* min() of the distances of a non-empty list.
RECURSIVE MinDistance(_)
MinDistance(smp) ==
    IF Len(smp) = 1 THEN smp[1].distance
    ELSE Min(smp[1].distance, MinDistance(Tail(smp)))

\* The rest of analyze_envelope once sample_distances has returned.  With
\* no minimum, min_distance is min(distances): ValueError when no instant
\* of the window could be propagated.
Analyze ==
    /\ pc = "sample"
    /\ ~LoopGuard
    /\ LET ms == LocalMinimaFrom(samples, 1)
       IN  IF ms = <<>> /\ samples = <<>>
           THEN /\ pc' = "raised"
                /\ analysis' = analysis
           ELSE /\ pc' = "done"
                /\ analysis' =
                     <<[minima |-> ms,
                        envelope |-> FindEnvelopeMinima(ms, ANALYZE_WINDOW),
                        min_distance |-> IF ms # <<>> THEN MinDistance(ms)
                                         ELSE MinDistance(samples)]>>
    /\ UNCHANGED <<events, passes, minima, window_size, envelope>>
    /\ UNCHANGED geoVars
    /\ UNCHANGED <<caller, known, visited, samples, declared>>
    /\ UNCHANGED <<refinements, prior>>
    /\ UNCHANGED scanVars
    /\ UNCHANGED paramVars
    /\ UNCHANGED refineVars
    /\ UNCHANGED pickVars

NextAnalyze ==
    \/ SampleOk
    \/ SampleFail
    \/ Analyze

SpecAnalyze == InitAnalyze /\ [][NextAnalyze]_vars

\* C16 as claimed: when the window holds no local minimum analyze_envelope
\* does not raise; it returns a result whose minima and envelope minima
\* are empty.
C16_NoMinimumNeverRaises ==
    (caller = "analyze_envelope"
       /\ ~LoopGuard
       /\ FindLocalMinima(Distances(samples)) = {})
    => /\ pc # "raised"
       /\ analysis # <<>> =>
            /\ analysis[1].minima = <<>>
            /\ analysis[1].envelope.minima = <<>>

\* The refined events find_conjunctions kept, in the order of detection.
RECURSIVE AcceptedEvents(_, _)
AcceptedEvents(refs, thr) ==
    IF refs = <<>> THEN <<>>
    ELSE IF Accepts(Head(refs), thr)
         THEN <<Head(refs)[1]>> \o AcceptedEvents(Tail(refs), thr)
         ELSE AcceptedEvents(Tail(refs), thr)

\* How often e occurs in the list s.
Count(e, s) == Cardinality({i \in 1..Len(s) : s[i] = e})

\* C17: the list find_conjunctions returns holds the kept events in
\* non-decreasing distance whatever the order of detection; its first
\* element, when there is one, is the closest of them.
C17_ReturnedSortedByDistance ==
    pc = "done" =>
       LET acc == AcceptedEvents(refinements, threshold_km)
       IN  /\ \A i \in 1..(Len(conjunctions) - 1) :
                conjunctions[i].distance <= conjunctions[i + 1].distance
           /\ Len(conjunctions) = Len(acc)
           /\ \A k \in 1..Len(acc) :
                /\ Count(acc[k], conjunctions) = Count(acc[k], acc)
                /\ conjunctions[1].distance <= acc[k].distance

C17_Witness ==
    /\ pc = "done"
    /\ Len(conjunctions) = 2
    /\ LET acc == AcceptedEvents(refinements, threshold_km)
       IN  /\ Len(acc) = 2
           /\ acc[1].distance > acc[2].distance
           /\ acc[1].time < acc[2].time

\* C18: of the records at the same least absolute difference from the
\* query instant pick_closest_tle returns the one that comes first in the
\* list, which in a list sorted by epoch is the one of the earlier epoch.
C18_TieGoesToFirst ==
    picked # <<>> =>
       \A j \in 1..Len(tles) :
          Abs(tles[j].epoch - target_time)
            = Abs(picked[1].epoch - target_time)
          => /\ picked[1].line <= j
             /\ picked[1].epoch <= tles[j].epoch
             /\ tles[picked[1].line] = picked[1]

C18_Witness ==
    /\ picked # <<>>
    /\ Len(tles) = 3
    /\ picked[1].line = 2
    /\ tles[3].epoch > picked[1].epoch
    /\ Abs(tles[3].epoch - target_time) = Abs(picked[1].epoch - target_time)

\* The samples of one revolution of object B around a fixed object A: the
\* separation is 0 at the first sample, rises strictly to its greatest
\* value (taken by one sample or by two neighbours) and falls strictly
\* from there to the last sample.
OneRevolution(smp) ==
    /\ Len(smp) >= 3
    /\ smp[1].distance = 0
    /\ \E p \in 2..(Len(smp) - 1) :
         /\ \A i \in 1..(p - 1) : smp[i].distance < smp[i + 1].distance
         /\ \A i \in p..(Len(smp) - 1) :
              \/ smp[i].distance > smp[i + 1].distance
              \/ i = p /\ smp[i].distance = smp[i + 1].distance
         /\ Last(smp).distance < smp[p].distance

\* The scan has ended on the samples of one revolution, every instant
\* propagated.
RevolutionScanned ==
    /\ pc = "done"
    /\ ~empty_tles
    /\ Len(samples) = Len(visited)
    /\ OneRevolution(samples)

\* C19 as claimed: over one revolution, separation 0 at angle 0 and
\* greatest at angle pi, the scan reports exactly one minimum.
C19_OneMinimumPerRevolution ==
    RevolutionScanned =>
       /\ Len(declared) = 1
       /\ Cardinality(FindLocalMinima(Distances(samples))) = 1

\* C19 as amended: over that revolution the scan reports no minimum: the
\* separation rises and then falls inside the window, and its minima are
\* at the first and the last instant of the window.
C19_NoMinimumInsideRevolution ==
    RevolutionScanned =>
       /\ declared = <<>>
       /\ conjunctions = <<>>
       /\ FindLocalMinima(Distances(samples)) = {}

C19_Witness ==
    /\ RevolutionScanned
    /\ Len(samples) = MaxVisits
    /\ Last(samples).distance = 0
    /\ samples[3].distance = MaxDist

\* C22 as claimed: with no propagation failure every iteration of the
\* ternary search strictly reduces the width of the bracket, for every
\* bracket and every integer precision_ms >= 0, so that refine_minimum
\* terminates.
C22_EveryIterationShrinks ==
    [][(pc = "refine" /\ Len(brackets') = Len(brackets) + 1)
       => (end' - start') < (end - start)
      ]_vars

\* C23: an iteration of refine_minimum evaluates the separation at
\* t1 = start + (end - start)/3 and t2 = end - (end - start)/3; when
\* d(t1) < d(t2) the new bracket is [start, t2], otherwise (d(t1) = d(t2)
\* included) it is [t1, end]; each bracket lies inside the one before it and
\* start <= end throughout.
C23_BracketKeepsNearerThird ==
    /\ [][(pc = "refine" /\ Len(brackets') = Len(brackets) + 1)
          => LET t1 == start + DivRound(end - start, 3)
                 t2 == end - DivRound(end - start, 3)
             IN  /\ evals' = evals \o <<t1, t2>>
                 /\ known'[t1].e = "ok"
                 /\ known'[t2].e = "ok"
                 /\ known'[t1].d < known'[t2].d
                      => (start' = start /\ end' = t2)
                 /\ known'[t1].d >= known'[t2].d
                      => (start' = t1 /\ end' = end)
                 /\ Last(brackets') = [start |-> start', end |-> end']
         ]_vars
    /\ [](/\ start <= end
          /\ \A i \in 1..Len(brackets) :
               /\ brackets[i].start <= brackets[i].end
               /\ i > 1 =>
                    /\ brackets[i - 1].start <= brackets[i].start
                    /\ brackets[i].end <= brackets[i - 1].end)

C23_Witness ==
    /\ caller = "direct"
    /\ returned
    /\ Len(brackets) >= 3
    /\ known[evals[1]].d = known[evals[2]].d
    /\ evals[1] # evals[2]
    /\ brackets[2].start > brackets[1].start
    /\ brackets[3].end < brackets[2].end

\* C24 as claimed: every bracket find_conjunctions hands to refine_minimum
\* runs from the instant of the raw sample just before the detected
\* minimum's sample to the instant of the rising sample after it, skipped
\* instants and plateaus included.
C24_BracketFromPrecedingSample ==
    \A k \in 1..Len(declared) :
       /\ declared[k].lo = samples[declared[k].index - 1].time
       /\ declared[k].hi = samples[declared[k].index + 1].time

\* C24 as amended: the bracket runs from one step before the instant of the
\* detected minimum's sample to the instant of the rising sample after it.
\* Its start is the instant of the preceding raw sample exactly when that
\* instant was propagated; when it was skipped the preceding raw sample is
\* earlier than the start of the bracket.  The minimum's sample is inside
\* the bracket, a step after its start.
C24_BracketFromOneStepBefore ==
    \A k \in 1..Len(declared) :
       LET i == declared[k].index
       IN  /\ declared[k].time = samples[i].time
           /\ declared[k].lo = samples[i].time - step
           /\ declared[k].hi = samples[i + 1].time
           /\ declared[k].lo < samples[i].time
           /\ samples[i].time < declared[k].hi
           /\ samples[i - 1].time <= declared[k].lo
           /\ (samples[i - 1].time = declared[k].lo)
                <=> ~Failed(known[declared[k].lo])
           /\ k = Len(declared) /\ pc = "refine" =>
                brackets[1] = [start |-> declared[k].lo, end |-> declared[k].hi]

C24_Witness ==
    /\ pc = "done"
    /\ Len(declared) = 1
    /\ Failed(known[declared[1].lo])
    /\ samples[declared[1].index - 1].time < declared[1].lo
    /\ samples[declared[1].index].distance
         = samples[declared[1].index - 1].distance

\* C25: when refine_minimum returns None for a detected minimum,
\* find_conjunctions records no event for it, resets the decreasing flag,
\* makes the current sample the previous one and goes on with the next
\* instant; each detected minimum is refined once, and a None neither ends
\* the scan nor is tried again.
C25_FailedRefinementIsDropped ==
    /\ [][(/\ pc = "refine"
           /\ caller = "find_conjunctions"
           /\ pc' # "refine"
           /\ result' = <<>>)
          => /\ pc' = "scan"
             /\ conjunctions' = conjunctions
             /\ ~decreasing'
             /\ prev_time' = Last(samples).time
             /\ prev_time' = current
             /\ prev_distance' = Last(samples).distance
             /\ current' = current + step
             /\ refinements' = Append(refinements, <<>>)
             /\ UNCHANGED <<declared, samples, visited>>
         ]_vars
    /\ [](/\ Len(refinements) <= Len(declared)
          /\ Len(declared) <= Len(refinements) + 1
          /\ pc \in {"scan", "done"} => Len(refinements) = Len(declared))

C25_Witness ==
    /\ pc = "done"
    /\ Len(declared) = 2
    /\ refinements[1] = <<>>
    /\ refinements[2] # <<>>
    /\ Len(conjunctions) = 1
    /\ Last(visited) = end_time

\* C26: the events find_conjunctions keeps are exactly the refined events
\* whose distance is strictly below threshold_km: every kept event is below
\* the threshold, and every refinement that succeeded below the threshold
\* is kept, whatever the distance of the raw sample it was detected at.
C26_KeptIffRefinedBelowThreshold ==
    /\ \A i \in 1..Len(conjunctions) :
         /\ conjunctions[i].distance < threshold_km
         /\ \E k \in 1..Len(refinements) :
              refinements[k] = <<conjunctions[i]>>
    /\ \A k \in 1..Len(refinements) :
         refinements[k] # <<>> =>
            ((refinements[k][1].distance < threshold_km)
               <=> \E i \in 1..Len(conjunctions) :
                      conjunctions[i] = refinements[k][1])
    /\ Len(conjunctions) = Len(AcceptedEvents(refinements, threshold_km))

C26_Witness ==
    /\ pc = "done"
    /\ conjunctions = <<>>
    /\ \E k \in 1..Len(refinements) :
         /\ refinements[k] # <<>>
         /\ declared[k].distance < threshold_km
         /\ refinements[k][1].distance >= threshold_km

\* The epochs of the list are strictly ascending.
StrictlyAscending(ts) ==
    \A i \in 1..(Len(ts) - 1) : ts[i].epoch < ts[i + 1].epoch

\* C28: for a list of strictly ascending epochs the record pick_closest_tle
\* selects never moves to an earlier epoch as the query instant grows, and
\* the selection passes from a record to the next one exactly when the
\* instant is past the midpoint of their epochs; at the midpoint itself the
\* earlier record is selected.
C28_SelectionSwitchesAtMidpoint ==
    (picked # <<>> /\ StrictlyAscending(tles)) =>
       LET j == picked[1].line
       IN  /\ tles[j] = picked[1]
           /\ j > 1 => 2 * target_time > tles[j - 1].epoch + tles[j].epoch
           /\ j < Len(tles) =>
                2 * target_time <= tles[j].epoch + tles[j + 1].epoch
           /\ \A t \in Instants :
                /\ t <= target_time =>
                     PickClosestTle(tles, t).epoch <= picked[1].epoch
                /\ t >= target_time =>
                     PickClosestTle(tles, t).epoch >= picked[1].epoch

C28_Witness ==
    /\ picked # <<>>
    /\ Len(tles) = 3
    /\ StrictlyAscending(tles)
    /\ picked[1].line = 2
    /\ 2 * target_time = tles[2].epoch + tles[3].epoch
    /\ PickClosestTle(tles, target_time + 1) = tles[3]
    /\ PickClosestTle(tles, tles[1].epoch) = tles[1]

\* No two consecutive samples have the same distance.
NoEqualNeighbours(smp) ==
    \A i \in 1..(Len(smp) - 1) : smp[i].distance # smp[i + 1].distance

\* C29: on a sample sequence in which no two consecutive distances are
\* equal the flag detector of find_conjunctions declares a minimum at
\* exactly the indices where the three-point test of find_local_minima,
\* d[i] < d[i-1] and d[i] < d[i+1], holds; the two detectors differ only on
\* sequences with equal consecutive distances.
C29_DetectorsAgreeWithoutPlateau ==
    /\ NoEqualNeighbours(samples) =>
         /\ {declared[k].index : k \in 1..Len(declared)}
              = FindLocalMinima(Distances(samples))
         /\ \A i \in 2..(Len(samples) - 1) :
              (/\ samples[i].distance < samples[i - 1].distance
               /\ samples[i].distance < samples[i + 1].distance)
              <=> \E k \in 1..Len(declared) : declared[k].time = samples[i].time
    /\ {declared[k].index : k \in 1..Len(declared)}
         # FindLocalMinima(Distances(samples))
         => ~NoEqualNeighbours(samples)

C29_Witness ==
    /\ pc = "done"
    /\ NoEqualNeighbours(samples)
    /\ Len(samples) = MaxVisits
    /\ Len(declared) = 2
    /\ FindLocalMinima(Distances(samples)) = {2, 4}

\* ------------------------------------------- investigation/verify_conjunction
\* The second copy of the engine, run on the propagation outcomes kn of the
\* first.  An instant the first copy did not evaluate has no outcome there:
\* the second copy's result is then marked with the distance NoneVal.
\*
\* verify_conjunction.refine_minimum(wv3_tles, starlink_tles, start, end,
\* precision_ms) for non-empty lists: <<>> is None.
RECURSIVE VcRefineMinimum(_, _, _, _)
VcRefineMinimum(kn, s, e, p) ==
    IF (e - s) > p
    THEN LET third == DivRound(e - s, 3)
             t1 == s + third
             t2 == e - third
         IN  IF kn[t1] = NotEvaluated
             THEN <<[time |-> t1, distance |-> NoneVal]>>
             ELSE IF Failed(kn[t1]) THEN <<>>
             ELSE IF kn[t2] = NotEvaluated
             THEN <<[time |-> t2, distance |-> NoneVal]>>
             ELSE IF Failed(kn[t2]) THEN <<>>
             ELSE IF kn[t1].d < kn[t2].d
             THEN VcRefineMinimum(kn, s, t2, p)
             ELSE VcRefineMinimum(kn, t1, e, p)
    ELSE LET mid == s + DivRound(e - s, 2)
         IN  IF kn[mid] = NotEvaluated
             THEN <<[time |-> mid, distance |-> NoneVal]>>
             ELSE IF Failed(kn[mid]) THEN <<>>
             ELSE <<[time |-> mid, distance |-> kn[mid].d]>>

\* The loop of find_close_approaches from the instant cur on; the
\* refinement is called with precision_ms=100, the value of
\* REFINE_PRECISION_MS.
RECURSIVE VcScanFrom(_, _, _, _, _, _, _, _, _)
VcScanFrom(kn, et, st, thr, cur, pd, pt, dec, approaches) ==
    IF ~(cur <= et) THEN SortedByDistance(approaches)
    ELSE IF kn[cur].e # "ok"
    THEN VcScanFrom(kn, et, st, thr, cur + st, pd, pt, dec, approaches)
    ELSE LET dist == kn[cur].d
         IN  IF pd # NoneVal /\ dist < pd
             THEN VcScanFrom(kn, et, st, thr, cur + st, dist, cur, TRUE,
                             approaches)
             ELSE IF pd # NoneVal /\ dec /\ dist > pd
             THEN LET refined ==
                        VcRefineMinimum(kn, pt - st, cur, REFINE_PRECISION)
                  IN  VcScanFrom(kn, et, st, thr, cur + st, dist, cur, FALSE,
                                 IF refined # <<>> /\ refined[1].distance < thr
                                 THEN Append(approaches, refined[1])
                                 ELSE approaches)
             ELSE VcScanFrom(kn, et, st, thr, cur + st, dist, cur, dec,
                             approaches)

\* find_close_approaches(wv3_tles, starlink_tles, start_time, end_time,
\* step_seconds, threshold_km), start_time being 0.
FindCloseApproaches(kn, et, st, thr) ==
    VcScanFrom(kn, et, st, thr, 0, NoneVal, NoneVal, FALSE, <<>>)

\* C30: for the same non-empty snapshot lists, window, step, threshold and
\* propagation outcomes, failures included, find_close_approaches returns
\* the sequence of (time, distance) events find_conjunctions returns, and
\* on every bracket handed to the refiner the refine_minimum of
\* verify_conjunction returns what the refine_minimum of conjunctions
\* returned, None exactly where it returned None.
C30_CopiesAgree ==
    ~empty_tles =>
       /\ \A k \in 1..Len(refinements) :
            VcRefineMinimum(known, declared[k].lo, declared[k].hi,
                            REFINE_PRECISION) = refinements[k]
       /\ pc = "done" =>
            FindCloseApproaches(known, end_time, step, threshold_km)
              = conjunctions

C30_Witness ==
    /\ pc = "done"
    /\ ~empty_tles
    /\ Len(refinements) = 2
    /\ refinements[1] # <<>>
    /\ refinements[2] = <<>>
    /\ conjunctions = <<refinements[1][1]>>
    /\ FindCloseApproaches(known, end_time, step, threshold_km) # <<>>

\* ------------------------------------------------ scan_dec17.scan_all_approaches
\* The lists the scan is given: one or two snapshots for the first object
\* (wv3_tles, in `tles'), one for the second.
ApproachLists == {ts \in SnapshotLists : Len(ts) \in 1..2}

StarlinkTles == <<TLERecord(0, 1)>>

\* scan_all_approaches(wv3_tles, starlink_tles, date_str): the window starts
\* at 0; `conjunctions' holds approaches.
InitApproaches ==
    /\ tles \in ApproachLists
    /\ target_time = 0
    /\ picked = <<>>
    /\ step \in 1..MaxStep
    /\ end_time \in {e \in Instants : e \div step < MaxVisits}
    /\ threshold_km = MaxDist
    /\ empty_tles = FALSE
    /\ current = 0
    /\ prev_distance = NoneVal
    /\ prev_time = NoneVal
    /\ decreasing = FALSE
    /\ conjunctions = <<>>
    /\ pc = "approach"
    /\ caller = "scan_all_approaches"
    /\ start = 0
    /\ end = 0
    /\ precision = REFINE_PRECISION
    /\ result = <<>>
    /\ returned = FALSE
    /\ known = [t \in Instants |-> NotEvaluated]
    /\ visited = <<>>
    /\ samples = <<>>
    /\ declared = <<>>
    /\ evals = <<>>
    /\ brackets = <<>>
    /\ refinements = <<>>
    /\ prior = <<>>
    /\ AggIdle

\* elif decreasing and dist > prev_dist and prev_dist < 1000
ApproachFound(dec, dist, prev, thr) ==
    prev # NoneVal /\ dec /\ dist > prev /\ prev < thr

\* Propagation fails at `current': except ValueError: pass.
ApproachSkip ==
    /\ pc = "approach"
    /\ LoopGuard
    /\ \E o \in Propagate(known, current) :
         /\ Failed(o)
         /\ known' = Record(known, current, o)
    /\ visited' = Append(visited, current)
    /\ current' = current + step
    /\ UNCHANGED <<prev_distance, prev_time, decreasing, conjunctions>>
    /\ UNCHANGED <<pc, caller, samples, declared, refinements, prior>>
    /\ UNCHANGED paramVars
    /\ UNCHANGED refineVars
    /\ UNCHANGED pickVars
    /\ UNCHANGED aggVars

\* A successful sample on which no approach is found.
ApproachSample ==
    /\ pc = "approach"
    /\ LoopGuard
    /\ \E o \in Propagate(known, current) :
         /\ ~Failed(o)
         /\ ~ApproachFound(decreasing, o.d, prev_distance, threshold_km)
         /\ known' = Record(known, current, o)
         /\ samples' = Append(samples, [time |-> current, distance |-> o.d])
         /\ decreasing' = IF Falling(o.d, prev_distance) THEN TRUE
                          ELSE decreasing
         /\ prev_distance' = o.d
    /\ prev_time' = current
    /\ visited' = Append(visited, current)
    /\ current' = current + step
    /\ UNCHANGED <<conjunctions, pc, caller, declared, refinements, prior>>
    /\ UNCHANGED paramVars
    /\ UNCHANGED refineVars
    /\ UNCHANGED pickVars
    /\ UNCHANGED aggVars

\* A successful sample on which an approach is found at prev_time: both
\* objects are propagated to prev_time with wv3_tle and starlink_tle, the
\* records picked for `current', and the approach is appended.
ApproachDetect ==
    /\ pc = "approach"
    /\ LoopGuard
    /\ \E o \in Propagate(known, current) :
         /\ ~Failed(o)
         /\ ApproachFound(decreasing, o.d, prev_distance, threshold_km)
         /\ known' = Record(known, current, o)
         /\ samples' = Append(samples, [time |-> current, distance |-> o.d])
         /\ prev_distance' = o.d
    /\ declared' = Append(declared, [index |-> Len(samples),
                                     time |-> prev_time,
                                     distance |-> prev_distance,
                                     lo |-> prev_time,
                                     hi |-> current])
    /\ conjunctions' =
         Append(conjunctions,
                [time |-> prev_time,
                 distance |-> prev_distance,
                 wv3_tle |-> PickClosestTle(tles, current),
                 starlink_tle |-> PickClosestTle(StarlinkTles, current)])
    /\ decreasing' = FALSE
    /\ prev_time' = current
    /\ visited' = Append(visited, current)
    /\ current' = current + step
    /\ UNCHANGED <<pc, caller, refinements, prior>>
    /\ UNCHANGED paramVars
    /\ UNCHANGED refineVars
    /\ UNCHANGED pickVars
    /\ UNCHANGED aggVars

\* An approach is found, and propagating to prev_time with the record
\* picked for `current' raises ValueError (it can when that record is not
\* the one the sample at prev_time was taken with): except ValueError: pass
\* skips the append, the reset of the flag and the update of the previous
\* sample.
ApproachDetectFail ==
    /\ pc = "approach"
    /\ LoopGuard
    /\ PickClosestTle(tles, current) # PickClosestTle(tles, prev_time)
    /\ \E o \in Propagate(known, current) :
         /\ ~Failed(o)
         /\ ApproachFound(decreasing, o.d, prev_distance, threshold_km)
         /\ known' = Record(known, current, o)
         /\ samples' = Append(samples, [time |-> current, distance |-> o.d])
    /\ visited' = Append(visited, current)
    /\ current' = current + step
    /\ UNCHANGED <<prev_distance, prev_time, decreasing, conjunctions>>
    /\ UNCHANGED <<pc, caller, declared, refinements, prior>>
    /\ UNCHANGED paramVars
    /\ UNCHANGED refineVars
    /\ UNCHANGED pickVars
    /\ UNCHANGED aggVars

\* The loop ends: return approaches.
ApproachReturn ==
    /\ pc = "approach"
    /\ ~LoopGuard
    /\ pc' = "done"
    /\ UNCHANGED <<caller, known, visited, samples, declared>>
    /\ UNCHANGED <<refinements, prior>>
    /\ UNCHANGED scanVars
    /\ UNCHANGED paramVars
    /\ UNCHANGED refineVars
    /\ UNCHANGED pickVars
    /\ UNCHANGED aggVars

NextApproaches ==
    \/ ApproachSkip
    \/ ApproachSample
    \/ ApproachDetect
    \/ ApproachDetectFail
    \/ ApproachReturn

SpecApproaches == InitApproaches /\ [][NextApproaches]_vars

\* C27 as claimed: a position reported for an instant is propagated from
\* the snapshots nearest to that instant; the positions attached to an
\* approach found at prev_time come from the snapshots nearest to prev_time.
C27_ReportedWithNearestSnapshot ==
    \A i \in 1..Len(conjunctions) :
       /\ conjunctions[i].wv3_tle
            = PickClosestTle(tles, conjunctions[i].time)
       /\ conjunctions[i].starlink_tle
            = PickClosestTle(StarlinkTles, conjunctions[i].time)

\* ----------------------------------------------------------- eci_to_geodetic
\* Angles are whole degrees and multiples of 90, where sine and cosine are
\* 0, 1 or -1; positions lie on a coordinate axis, so that every angle the
\* conversion computes is such a multiple.
Cos(a) ==
    CASE a % 360 = 0 -> 1
      [] a % 360 = 90 -> 0
      [] a % 360 = 180 -> 0 - 1
      [] a % 360 = 270 -> 0

Sin(a) ==
    CASE a % 360 = 0 -> 0
      [] a % 360 = 90 -> 1
      [] a % 360 = 180 -> 0
      [] a % 360 = 270 -> 0 - 1

\* math.degrees(math.atan2(y, x)) for x = 0 or y = 0; atan2(0, 0) is 0.
Atan2(y, x) ==
    IF y = 0 THEN (IF x >= 0 THEN 0 ELSE 180)
    ELSE IF y > 0 THEN 90 ELSE 0 - 90

\* math.sqrt(a**2 + b**2) for a = 0 or b = 0.
Hypot(a, b) == Abs(a) + Abs(b)

\* n = EARTH_RADIUS_KM / math.sqrt(1 - e2 * sin_lat**2)
PrimeVertical(lat) == IF Sin(lat) = 0 THEN EARTH_RADIUS_CM ELSE N_POLE_CM

\* for _ in range(5): lat = math.atan2(z_ecef + e2 * n * sin_lat, p)
RECURSIVE Latitude(_, _, _, _)
Latitude(z, p, lat, k) ==
    IF k = 0 THEN lat
    ELSE Latitude(z, p, Atan2(z + Sin(lat) * E2_N_POLE_CM, p), k - 1)

\* Mutant: no polar fallback; p / cos_lat is 0 at a pole, where p is 0.
AltitudeWithoutFallback(p, z, lat) ==
    (IF Cos(lat) # 0 THEN p \div Cos(lat) ELSE 0) - PrimeVertical(lat)

\* alt = p / cos_lat - n if abs(cos_lat) > 1e-10
\*       else abs(z_ecef) - n * (1 - e2)
Altitude(p, z, lat) ==
    IF Cos(lat) # 0 THEN p \div Cos(lat) - PrimeVertical(lat)
    ELSE Abs(z) - (PrimeVertical(lat) - E2_N_POLE_CM)

\* eci_to_geodetic(pos, dt), g being gmst % 360 at dt.
EciToGeodetic(ps, g) ==
    LET x == ps[1]
        y == ps[2]
        z == ps[3]
        x_ecef == x * Cos(g) + y * Sin(g)
        y_ecef == (0 - x) * Sin(g) + y * Cos(g)
        lon == Atan2(y_ecef, x_ecef)
        p == Hypot(x_ecef, y_ecef)
        lat == Latitude(z, p, Atan2(z, p), LATITUDE_ITERATIONS)
    IN  [lat |-> lat, lon |-> lon, alt |-> Altitude(p, z, lat)]

\* Distances from the centre of the Earth: on the ellipsoid at the equator
\* and at a pole, and MaxAltitude above.
Radii ==
    {EARTH_RADIUS_CM, EARTH_RADIUS_CM + MaxAltitude,
     N_POLE_CM - E2_N_POLE_CM, N_POLE_CM - E2_N_POLE_CM + MaxAltitude}

\* The centre of the Earth and the points of the six half-axes at those
\* distances.
AxisPositions ==
    {<<0, 0, 0>>} \cup
    UNION {{<<r, 0, 0>>, <<0 - r, 0, 0>>, <<0, r, 0>>, <<0, 0 - r, 0>>,
            <<0, 0, r>>, <<0, 0, 0 - r>>} : r \in Radii}

InitGeodetic ==
    /\ pos \in AxisPositions
    /\ gmst \in {0, 90, 180, 270}
    /\ geodetic = <<>>
    /\ events = <<>>
    /\ passes = <<>>
    /\ minima = <<>>
    /\ window_size = 0
    /\ envelope = <<>>
    /\ analysis = <<>>
    /\ pc = "geodetic"
    /\ empty_tles = FALSE
    /\ EngineIdle
    /\ PickIdle

\* lat, lon, alt = eci_to_geodetic(pos, dt)
ToGeodetic ==
    /\ pc = "geodetic"
    /\ geodetic' = <<EciToGeodetic(pos, gmst)>>
    /\ pc' = "done"
    /\ UNCHANGED <<pos, gmst>>
    /\ UNCHANGED <<events, passes, minima, window_size, envelope, analysis>>
    /\ UNCHANGED <<caller, known, visited, samples, declared>>
    /\ UNCHANGED <<refinements, prior>>
    /\ UNCHANGED scanVars
    /\ UNCHANGED paramVars
    /\ UNCHANGED refineVars
    /\ UNCHANGED pickVars

NextGeodetic == ToGeodetic

SpecGeodetic == InitGeodetic /\ [][NextGeodetic]_vars

\* C21: for the inertial position of the point at latitude 0, longitude 0
\* and altitude 500 km at an instant where GMST is 0, eci_to_geodetic
\* returns latitude, longitude and altitude within 1e-3 (degrees, km) of
\* (0, 0, 500); it returns a triple for every position and instant, and the
\* altitude of a point with cos(latitude) = 0 is the polar fallback
\* abs(z) - n * (1 - e2).
C21_GeodeticOfEquatorialPoint ==
    /\ pc = "geodetic" => ENABLED ToGeodetic
    /\ geodetic # <<>> =>
         LET g == geodetic[1]
         IN  /\ pc = "done"
             /\ (pos = <<EARTH_RADIUS_CM + MaxAltitude, 0, 0>> /\ gmst = 0) =>
                  /\ g.lat = 0
                  /\ g.lon = 0
                  /\ Abs(g.alt - MaxAltitude) <= 100
             /\ (pos[1] = 0 /\ pos[2] = 0 /\ pos[3] # 0) =>
                  /\ g.lat \in {90, 0 - 90}
                  /\ g.alt = Abs(pos[3]) - (N_POLE_CM - E2_N_POLE_CM)
             /\ (pos[1] # 0 \/ pos[2] # 0) =>
                  /\ g.lat = 0
                  /\ g.alt = Abs(pos[1]) + Abs(pos[2]) - EARTH_RADIUS_CM

C21_Witness ==
    /\ pc = "done"
    /\ pos = <<EARTH_RADIUS_CM + MaxAltitude, 0, 0>>
    /\ gmst = 0
    /\ geodetic = <<[lat |-> 0, lon |-> 0, alt |-> MaxAltitude]>>

=============================================================================
